---- MODULE Spec2Model ----
(***************************************************************************)
(* State-machine model of the MCTS transposition graph of src/mcts/mcts.cpp *)
(* (MCTSTree and MCTSNode).  Nodes live in a heap indexed by allocation     *)
(* order; shared_ptr ownership is modelled by reference counting over the   *)
(* child lists, the root list and the handles pinned by the running call;   *)
(* weak_ptr parents are node ids that may refer to a destroyed node.        *)
(* PUCT scores are compared as exact reals (C = 1.44 = 36/25).              *)
(***************************************************************************)
EXTENDS Integers, Sequences, FiniteSets, TLC

\* ------------------------------------------------------------------ bounds
\* MaxNodes caps the nodes ever allocated, MaxLookups the get_node calls,
\* MaxVisits the visits summed over the live nodes; prune() is called with
\* max_size 0 or MaxSize, mcts() with 0 or MaxIter iterations.
MaxNodes == 5
MaxLookups == 6
MaxVisits == 3
MaxSize == 1
MaxIter == 1
\* The concurrent runs: the first of two threads makes up to MaxOps calls,
\* the second one call.
MaxOps == 2
Threads == {1, 2}
Ops(t) == IF t = 1 THEN MaxOps ELSE 1

\* ------------------------------------------------- the game (external Board)
\* A small two-player game with a transposition (board 3 is reached through
\* board 1 and through board 2) and terminal boards at two depths.
\* ValidMoves(b) lists the boards reached by b's legal moves, in move order;
\* a board is terminal iff it has no legal move.  The application starts
\* searches from the boards of RootBoards.
Boards == 0..5
RootBoards == {0, 2}

ValidMoves(b) ==
    CASE b = 0 -> <<1, 2>>
      [] b = 1 -> <<3>>
      [] b = 2 -> <<3, 4>>
      [] b = 3 -> <<5>>
      [] OTHER -> <<>>

Player(b) == IF b \in {0, 3, 4} THEN "p1" ELSE "p2"

GameWinner(b) ==
    CASE b = 4 -> "tie"
      [] b = 5 -> "p2"
      [] OTHER -> "none"

Range(s) == {s[i] : i \in DOMAIN s}

\* Board.move: the board reached by the i-th legal move of b.
Move(b, i) == ValidMoves(b)[i]

RECURSIVE Outcomes(_)
\* simulate(): the winners a uniformly random playout from b can end in.
Outcomes(b) ==
    IF GameWinner(b) # "none" THEN {GameWinner(b)}
    ELSE UNION {Outcomes(c) : c \in Range(ValidMoves(b))}

\* ------------------------------------------------------------ the node heap
nullptr == 0

FreshStats == [visits |-> 0, wins |-> 0, ties |-> 0, expanded |-> FALSE]

\* MCTSNode::MCTSNode: the parent is pushed unconditionally, nullptr included.
NewNode(b, parent) ==
    [board |-> b, alive |-> TRUE, visits |-> FreshStats.visits,
     wins |-> FreshStats.wins, ties |-> FreshStats.ties,
     expanded |-> FreshStats.expanded,
     children |-> <<>>, parents |-> <<parent>>]

\* What is left of a destroyed node: only weak references can still name it.
Tombstone(n) ==
    [board |-> n.board, alive |-> FALSE, visits |-> 0, wins |-> 0, ties |-> 0,
     expanded |-> FALSE, children |-> <<>>, parents |-> <<>>]

Ids(st) == 1..Len(st.nodes)
Live(st) == {x \in Ids(st) : st.nodes[x].alive}

\* weak_ptr::expired(): an empty weak_ptr and one whose node was destroyed.
Expired(st, p) == p = nullptr \/ ~st.nodes[p].alive

\* ----------------------------------------------------- shared_ptr ownership
\* A node has an owner while a live node's child list, the root list or a
\* handle pinned by the running call refers to it.
Owned(st, held, x) ==
    \/ x \in held
    \/ x \in Range(st.roots)
    \/ \E p \in Live(st) : x \in Range(st.nodes[p].children)

\* Destroy with the erase of the table entry (mcts.cpp:305) left out.
DestroyKeepEntry(st, z) ==
    [st EXCEPT
        !.nodes = [x \in DOMAIN st.nodes |->
                      IF x \in z THEN Tombstone(st.nodes[x]) ELSE st.nodes[x]],
        !.fill = st.fill + Cardinality(z)]

\* MCTSNode::~MCTSNode for every node of z: the destroy counter is bumped and
\* the table entry found under the node's board is erased; the members (the
\* child list) are destroyed with it.
Destroy(st, z) ==
    [st EXCEPT
        !.nodes = [x \in DOMAIN st.nodes |->
                      IF x \in z THEN Tombstone(st.nodes[x]) ELSE st.nodes[x]],
        !.table = [b \in DOMAIN st.table \ {st.nodes[x].board : x \in z}
                      |-> st.table[b]],
        !.fill = st.fill + Cardinality(z)]

\* Sweep that stops after the first round: the children of a destroyed node
\* are not released.
SweepOnce(st, held) ==
    LET z == {x \in Live(st) : ~Owned(st, held, x)}
    IN  IF z = {} THEN st ELSE Destroy(st, z)

RECURSIVE Sweep(_, _)
\* The cascade of destructors after references were dropped: nodes left
\* without an owner are destroyed, which releases their children in turn.
Sweep(st, held) ==
    LET z == {x \in Live(st) : ~Owned(st, held, x)}
    IN  IF z = {} THEN st ELSE Sweep(Destroy(st, z), held)

\* ----------------------------------------------------------------- MCTSTree
RemoveFirst(s, x) ==
    IF x \notin Range(s) THEN s
    ELSE LET k == CHOOSE i \in DOMAIN s :
                      s[i] = x /\ \A j \in 1..(i - 1) : s[j] # x
         IN  SubSeq(s, 1, k - 1) \o SubSeq(s, k + 1, Len(s))

\* get_node, the test transposition_table.find(new_board) != end().
TableHas(st, b) == b \in DOMAIN st.table

\* ReuseNode with the parent attach (mcts.cpp:27-29) left out.
ReuseNodeNoAttach(st, node, parent) ==
    LET unroot == Len(st.nodes[node].parents) = 0 /\ parent # nullptr
    IN  [st EXCEPT
            !.roots = IF unroot THEN RemoveFirst(st.roots, node) ELSE st.roots,
            !.hits = st.hits + 1]

\* ReuseNode that roots the reused node again when no parent is given.
ReuseNodeRooted(st, node, parent) ==
    LET unroot == Len(st.nodes[node].parents) = 0 /\ parent # nullptr
    IN  [st EXCEPT
            !.roots = IF unroot THEN RemoveFirst(st.roots, node)
                      ELSE IF parent = nullptr THEN Append(st.roots, node)
                      ELSE st.roots,
            !.nodes[node].parents =
                IF parent # nullptr THEN Append(@, parent) ELSE @,
            !.hits = st.hits + 1]

\* get_node, the branch that reuses the node found in the table: a node
\* whose parent list is empty is taken off the root list when a parent is
\* given, the parent is attached, and the hit is counted.
ReuseNode(st, node, parent) ==
    LET unroot == Len(st.nodes[node].parents) = 0 /\ parent # nullptr
    IN  [st EXCEPT
            !.roots = IF unroot THEN RemoveFirst(st.roots, node) ELSE st.roots,
            !.nodes[node].parents =
                IF parent # nullptr THEN Append(@, parent) ELSE @,
            !.hits = st.hits + 1]

\* get_node, the branch that allocates: the node is entered in the table and,
\* when no parent is given, in the root list.
CreateNode(st, b, parent) ==
    LET node == Len(st.nodes) + 1
    IN  [st EXCEPT
            !.nodes = Append(st.nodes, NewNode(b, parent)),
            !.table = [c \in DOMAIN st.table \cup {b} |->
                          IF c = b THEN node ELSE st.table[c]],
            !.roots = IF parent = nullptr THEN Append(st.roots, node)
                      ELSE st.roots]

\* get_node, the test wk_node.expired() on the entry found.
Stale(st, b) == TableHas(st, b) /\ ~st.nodes[st.table[b]].alive

\* get_node up to the recursive call of the stale-entry branch: the lookup is
\* counted and the entry erased; tree_lock is still held.
EraseStale(st, b) ==
    [st EXCEPT !.table = [c \in DOMAIN st.table \ {b} |-> st.table[c]],
               !.lookups = st.lookups + 1]

\* MCTSTree::get_node.  Returns the new tree state, the node, and whether the
\* stale-entry branch re-entered get_node with tree_lock still held (the
\* entry is erased and the lookup is counted a second time).
GetNode(st, b, parent) ==
    LET stale == Stale(st, b)
        t0 == IF stale
              THEN [EraseStale(st, b) EXCEPT !.lookups = @ + 1]
              ELSE [st EXCEPT !.lookups = st.lookups + 1]
    IN  IF TableHas(t0, b)
        THEN [st |-> ReuseNode(t0, t0.table[b], parent),
              node |-> t0.table[b], relock |-> stale]
        ELSE [st |-> CreateNode(t0, b, parent),
              node |-> Len(t0.nodes) + 1, relock |-> stale]

\* MCTSTree::transposition_size
TranspositionSize(st) == Cardinality(DOMAIN st.table)

\* ----------------------------------------------------------------- MCTSNode
RECURSIVE SumVisits(_, _)
SumVisits(st, ps) ==
    IF ps = <<>> THEN 0
    ELSE st.nodes[Head(ps)].visits + SumVisits(st, Tail(ps))

\* The parent list with the expired back-references erased, as the loops of
\* U() and prune_ancestors() leave it.
LiveParents(st, x) ==
    SelectSeq(st.nodes[x].parents, LAMBDA p : ~Expired(st, p))

\* MCTSNode::U, the side effect: expired parents are erased from the list.
UClean(st, x) == [st EXCEPT !.nodes[x].parents = LiveParents(st, x)]

\* MCTSNode::U, the sum under the square root: the visits of every entry of
\* the parent list that is not expired, an entry listed twice counted twice.
ParentVisitCount(st, x) == SumVisits(st, LiveParents(st, x))

\* Exact arithmetic on products that exceed the checker's integers: numbers
\* below Limb * Limb are split in two limbs and multiplied limb by limb.
Limb == 16384

BigMul(a, b) ==
    LET a1 == a \div Limb
        a0 == a % Limb
        b1 == b \div Limb
        b0 == b % Limb
        lo == a0 * b0
        mid == a1 * b0 + a0 * b1 + (lo \div Limb)
    IN  <<a1 * b1 + (mid \div Limb), mid % Limb, lo % Limb>>

BigLess(u, v) ==
    \/ u[1] < v[1]
    \/ u[1] = v[1] /\ u[2] < v[2]
    \/ u[1] = v[1] /\ u[2] = v[2] /\ u[3] < v[3]

\* The score max_PUCT() gives child x: (1 - Q()) + U() with
\* Q = (wins + TIE_REWARD * ties) / (1 + visits) and
\* U = C * sqrt(parent_visit_count) / (1 + visits).  With n = 1 + visits the
\* score is (25 * a + 72 * sqrt(pv)) / (50 * n), a = 2n - 2 wins - ties.
PUCTTerms(st, x) ==
    LET nd == st.nodes[x]
    IN  [n |-> 1 + nd.visits,
         a |-> 2 * (1 + nd.visits) - 2 * nd.wins - nd.ties,
         pv |-> ParentVisitCount(st, x)]

\* s > t for two scores given by their terms, decided exactly:
\* 25 (a_s n_t - a_t n_s) > 72 (sqrt(X) - sqrt(Y)), X = n_s^2 pv_t,
\* Y = n_t^2 pv_s, by case analysis on the signs and squaring.
ScoreGreater(s, t) ==
    LET l == 25 * (s.a * t.n - t.a * s.n)
        X == s.n * s.n * t.pv
        Y == t.n * t.n * s.pv
        M == 5184 * (X + Y) - l * l
        absM == IF M < 0 THEN 0 - M ELSE M
        MM == BigMul(absM, absM)
        KK == BigMul(10368 * X, 10368 * Y)
    IN  IF X = Y THEN l > 0
        ELSE IF X < Y THEN l >= 0 \/ (M > 0 /\ BigLess(KK, MM))
        ELSE l > 0 /\ (M <= 0 \/ BigLess(MM, KK))

RECURSIVE BestChildLast(_, _, _, _)
\* BestChild that also replaces the best child on an equal score.
BestChildLast(st, x, i, best) ==
    IF i > Len(st.nodes[x].children) THEN [st |-> st, best |-> best]
    ELSE LET c == st.nodes[x].children[i]
             better == \/ best = nullptr
                       \/ ~ScoreGreater(PUCTTerms(st, best), PUCTTerms(st, c))
         IN  BestChildLast(UClean(st, c), x, i + 1,
                           IF better THEN c ELSE best)

RECURSIVE BestChild(_, _, _, _)
\* The loop of max_PUCT(): U() of child i cleans the child's parent list, and
\* the child replaces the best one only on a strictly greater score
\* (the first child beats -inf).
BestChild(st, x, i, best) ==
    IF i > Len(st.nodes[x].children) THEN [st |-> st, best |-> best]
    ELSE LET c == st.nodes[x].children[i]
             better == \/ best = nullptr
                       \/ ScoreGreater(PUCTTerms(st, c), PUCTTerms(st, best))
         IN  BestChild(UClean(st, c), x, i + 1, IF better THEN c ELSE best)

\* MCTSNode::max_PUCT
MaxPUCT(st, x) == BestChild(st, x, 1, nullptr)

RECURSIVE SelectFromNoLeafVisit(_, _, _)
\* SelectFrom with the visit of the leaf (mcts.cpp:196) left out.
SelectFromNoLeafVisit(st, cur, path) ==
    IF cur = nullptr THEN [st |-> st, path |-> path, crash |-> TRUE]
    ELSE IF st.nodes[cur].expanded
    THEN LET r == BestChild(st, cur, 1, nullptr)
             s2 == [r.st EXCEPT !.nodes[cur].visits = @ + 1]
         IN  SelectFromNoLeafVisit(s2, r.best, Append(path, cur))
    ELSE [st |-> st, path |-> Append(path, cur), crash |-> FALSE]

RECURSIVE SelectFrom(_, _, _)
\* The loop of select(): descend while the current node is expanded.  An
\* expanded node without children makes max_PUCT() return nullptr, which the
\* next loop test dereferences.
SelectFrom(st, cur, path) ==
    IF cur = nullptr THEN [st |-> st, path |-> path, crash |-> TRUE]
    ELSE IF st.nodes[cur].expanded
    THEN LET r == MaxPUCT(st, cur)
             s2 == [r.st EXCEPT !.nodes[cur].visits = @ + 1]
         IN  SelectFrom(s2, r.best, Append(path, cur))
    ELSE [st |-> [st EXCEPT !.nodes[cur].visits = @ + 1],
          path |-> Append(path, cur), crash |-> FALSE]

\* MCTSNode::select
Select(st, x) == SelectFrom(st, x, <<>>)

RECURSIVE Backpropagate(_, _, _)
\* MCTSNode::backpropagate
Backpropagate(st, winner, path) ==
    IF path = <<>> THEN st
    ELSE LET x == Head(path)
             s2 == IF winner = Player(st.nodes[x].board)
                   THEN [st EXCEPT !.nodes[x].wins = @ + 1]
                   ELSE IF winner = "tie"
                   THEN [st EXCEPT !.nodes[x].ties = @ + 1]
                   ELSE st
         IN  Backpropagate(s2, winner, Tail(path))

\* MCTSNode::filicide: the child list is cleared, which destroys every node
\* left without an owner; held are the handles the callers keep.
Filicide(st, x, held) ==
    IF ~st.nodes[x].expanded THEN st
    ELSE Sweep([st EXCEPT !.nodes[x].children = <<>>,
                          !.nodes[x].expanded = FALSE], held)

\* One pass of the body of expand()'s loop for move i of node x.
ExpandMove(st, x, i) ==
    LET r == GetNode(st, Move(st.nodes[x].board, i), x)
    IN  [st |-> [r.st EXCEPT !.nodes[x].expanded = TRUE,
                             !.nodes[x].children = Append(@, r.node)],
         relock |-> r.relock]

\* MCTSNode::Q as the fraction num / (2 * n).
QTerms(st, x) ==
    [num |-> 2 * st.nodes[x].wins + st.nodes[x].ties,
     n |-> 1 + st.nodes[x].visits]

\* Q() + U() of a child (q, pv) is strictly below the Q() value qj:
\* 72 n_j sqrt(pv) < 25 (num_j n_i - num_i n_j), decided by squaring.
QULess(q, pv, qj) ==
    LET N == qj.num * q.n - q.num * qj.n
    IN  N > 0 /\ 5184 * qj.n * qj.n * pv < 625 * N * N

RECURSIVE PruneChildrenLoop(_, _, _, _)
\* The second loop of prune_children(): child i is filicided when its
\* Q() + U() is below the Q() some other child had when the call began.
PruneChildrenLoop(st, x, Qs, i) ==
    IF i > Len(st.nodes[x].children) THEN st
    ELSE LET c == st.nodes[x].children[i]
             pv == ParentVisitCount(st, c)
             s1 == UClean(st, c)
             prunable == \E j \in DOMAIN Qs :
                             j # i /\ QULess(QTerms(st, c), pv, Qs[j])
             s2 == IF prunable THEN Filicide(s1, c, {x, c}) ELSE s1
         IN  PruneChildrenLoop(s2, x, Qs, i + 1)

\* MCTSNode::prune_children
PruneChildren(st, x) ==
    LET Qs == [j \in DOMAIN st.nodes[x].children |->
                  QTerms(st, st.nodes[x].children[j])]
    IN  Sweep(PruneChildrenLoop(st, x, Qs, 1), {})

RECURSIVE PruneAncestorsRec(_, _, _, _)
RECURSIVE PASiblings(_, _, _, _, _)
RECURSIVE PAParents(_, _, _, _)

RECURSIVE PASiblingsAll(_, _, _, _, _)
\* PASiblings without the test that skips the node to keep.
PASiblingsAll(st, x, keep, held, i) ==
    IF i > Len(st.nodes[x].children) THEN st
    ELSE LET c == st.nodes[x].children[i]
         IN  PASiblingsAll(Filicide(st, c, held \cup {c}), x, keep, held,
                           i + 1)

\* The first loop of prune_ancestors(node_to_keep): every child of x but the
\* one to keep is filicided.
PASiblings(st, x, keep, held, i) ==
    IF i > Len(st.nodes[x].children) THEN st
    ELSE LET c == st.nodes[x].children[i]
             s1 == IF c = keep THEN st ELSE Filicide(st, c, held \cup {c})
         IN  PASiblings(s1, x, keep, held, i + 1)

\* The second loop: entry i of the parent list is erased when expired, and
\* else the call recurses into that parent with x as the node to keep; the
\* handle on the parent is dropped when the recursive call returns.
PAParents(st, x, held, i) ==
    IF i > Len(st.nodes[x].parents) THEN st
    ELSE LET p == st.nodes[x].parents[i]
         IN  IF Expired(st, p)
             THEN PAParents(
                     [st EXCEPT !.nodes[x].parents =
                         SubSeq(@, 1, i - 1) \o SubSeq(@, i + 1, Len(@))],
                     x, held, i)
             ELSE PAParents(
                     Sweep(PruneAncestorsRec(st, p, x, held \cup {p}), held),
                     x, held, i + 1)

\* MCTSNode::prune_ancestors(shared_ptr<MCTSNode> node_to_keep) on node x;
\* held are the handles of the enclosing calls, x among them.
PruneAncestorsRec(st, x, keep, held) ==
    LET s1 == IF x # keep THEN PASiblings(st, x, keep, held, 1) ELSE st
    IN  PAParents(s1, x, held, 1)

\* MCTSNode::prune_ancestors(): the handle made by shared_from_this() is
\* dropped when the call returns.
PruneAncestors(st, x) == Sweep(PruneAncestorsRec(st, x, x, {x}), {})

\* get_move()'s sentinel move {-1, -1, -1, -1}; a real move is the index of
\* its child.
NoMove == 0 - 1

\* Q() values given as fractions num / (2 * n), compared exactly.
QLess(q, r) == q.num * r.n < r.num * q.n
QEqual(q, r) == q.num * r.n = r.num * q.n

RECURSIVE GetMoveLoopNoTie(_, _, _, _)
\* GetMoveLoop without the branch for an equal Q (mcts.cpp:141-145).
GetMoveLoopNoTie(st, x, i, best) ==
    IF i > Len(st.nodes[x].children) THEN best.move
    ELSE LET c == st.nodes[x].children[i]
             q == QTerms(st, c)
             take == best.move = NoMove \/ QLess(q, best.q)
         IN  GetMoveLoopNoTie(st, x, i + 1,
                 IF take
                 THEN [q |-> q, visits |-> st.nodes[c].visits, move |-> i]
                 ELSE best)

RECURSIVE GetMoveLoop(_, _, _, _)
\* The loop of get_move(): child i becomes the best when its Q() is strictly
\* below best_Q (the first child is below inf), or equal to best_Q with more
\* visits than best_visits.
GetMoveLoop(st, x, i, best) ==
    IF i > Len(st.nodes[x].children) THEN best.move
    ELSE LET c == st.nodes[x].children[i]
             q == QTerms(st, c)
             take == \/ best.move = NoMove
                     \/ QLess(q, best.q)
                     \/ QEqual(q, best.q) /\ st.nodes[c].visits > best.visits
         IN  GetMoveLoop(st, x, i + 1,
                 IF take
                 THEN [q |-> q, visits |-> st.nodes[c].visits, move |-> i]
                 ELSE best)

\* MCTSNode::get_move: the sentinel for a node that is not expanded.
GetMove(st, x) ==
    IF ~st.nodes[x].expanded THEN NoMove
    ELSE GetMoveLoop(st, x, 1,
                     [q |-> [num |-> 0, n |-> 1], visits |-> 0,
                      move |-> NoMove])

\* ------------------------------------------------------------------- state
VARIABLES
    nodes,                \* the heap of MCTSNode objects, by allocation order
    transposition_table,  \* MCTSTree::transposition_table: board -> node
    roots,                \* MCTSTree::roots
    total_lookups, total_hits, total_fillicides,
    tree_lock,            \* MCTSTree::tree_lock is held
    locked,               \* the nodes whose MCTSNode::lock is held
    pc,                   \* where the (single) application thread is
    inspection_queue, max_size,   \* the frame of prune()
    exp_node, exp_i, exp_ret,     \* the frame of expand()
    mcts_node, mcts_left,         \* the frame of mcts()
    last,                 \* the call that acted last and the node it was on
    thr                   \* the frames of the threads of the concurrent runs

vars == <<nodes, transposition_table, roots, total_lookups, total_hits,
          total_fillicides, tree_lock, locked, pc, inspection_queue, max_size,
          exp_node, exp_i, exp_ret, mcts_node, mcts_left, last, thr>>

pruneVars == <<inspection_queue, max_size>>
expVars == <<exp_node, exp_i, exp_ret>>
mctsVars == <<mcts_node, mcts_left>>
lockVars == <<tree_lock, locked>>

\* The tree as one value, the form the operators above work on.
Cur ==
    [nodes |-> nodes, table |-> transposition_table, roots |-> roots,
     lookups |-> total_lookups, hits |-> total_hits, fill |-> total_fillicides]

Nxt ==
    [nodes |-> nodes', table |-> transposition_table', roots |-> roots',
     lookups |-> total_lookups', hits |-> total_hits',
     fill |-> total_fillicides']

Install(st) ==
    /\ nodes' = st.nodes
    /\ transposition_table' = st.table
    /\ roots' = st.roots
    /\ total_lookups' = st.lookups
    /\ total_hits' = st.hits
    /\ total_fillicides' = st.fill

\* ---------------------------------------------------------- thread frames
\* The score of no child: max_PUCT()'s best_PUCT = -inf.
NoScore == [n |-> 0, a |-> 0, pv |-> 0]

\* The frame of a thread between calls, with ops calls left to make.
\*   holds, htree   the node locks and the tree lock the thread holds
\*   gb, gp, gret   get_node: new_board, new_parent, where it returns to
\*   res            the node the last get_node returned
\*   root, left     mcts: node, the iterations left
\*   cur, path      select: cur_node, path
\*   best, bestT    max_PUCT: best_node, best_PUCT (as its terms)
\*   tmp            the value read by the unlocked visits++ of select
\*   winner         the winner of the playout
\*   i              the index of the running loop
\*   node, eret     expand / filicide / prune: the node worked on; where
\*                  expand returns to
\*   queue, ms, mv  prune: inspection_queue, max_size, max_visits
\*   dying, dret    the nodes whose destructor is running; where to go on
\*   at             the call a fault or hang happened in
\*   acc            the unprotected accesses of the thread's last step
IdleThread(ops) ==
    [pc |-> "idle", ops |-> ops, holds |-> {}, htree |-> FALSE,
     gb |-> 0, gp |-> nullptr, gret |-> "idle", res |-> nullptr,
     root |-> nullptr, left |-> 0, cur |-> nullptr, path |-> <<>>,
     best |-> nullptr, bestT |-> NoScore, tmp |-> 0, winner |-> "none",
     i |-> 0, node |-> nullptr, eret |-> "idle",
     queue |-> <<>>, ms |-> 0, mv |-> 0,
     dying |-> {}, dret |-> "idle", at |-> "none", acc |-> {}]

\* The tree after construction, no call running.
InitTree ==
    /\ nodes = <<>>
    /\ transposition_table = <<>>
    /\ roots = <<>>
    /\ total_lookups = 0
    /\ total_hits = 0
    /\ total_fillicides = 0
    /\ tree_lock = FALSE
    /\ locked = {}
    /\ pc = "idle"
    /\ inspection_queue = <<>>
    /\ max_size = 0
    /\ exp_node = nullptr
    /\ exp_i = 0
    /\ exp_ret = "idle"
    /\ mcts_node = nullptr
    /\ mcts_left = 0
    /\ last = [op |-> "none", node |-> nullptr]

\* The single-threaded runs have no thread frames.
Init == InitTree /\ thr = <<>>

\* The concurrent runs start with every thread between calls.
InitMT == InitTree /\ thr = [t \in Threads |-> IdleThread(Ops(t))]

\* Room left under the bounds for get_node calls on the boards of the
\* sequence bs: one lookup each, one allocation for each board not in the
\* table.
Room(bs) ==
    /\ Len(nodes) + Cardinality(Range(bs) \ DOMAIN transposition_table)
           <= MaxNodes
    /\ total_lookups + Len(bs) <= MaxLookups

RECURSIVE TotalVisits(_, _)
TotalVisits(st, i) ==
    IF i > Len(st.nodes) THEN 0
    ELSE st.nodes[i].visits + TotalVisits(st, i + 1)

\* The visits of the live nodes of st stay under the bound.
VisitsBounded(st) == TotalVisits(st, 1) <= MaxVisits

\* A re-entered tree_lock never returns: the thread hangs inside get_node.
AfterGetNode(relock, next) == IF relock THEN "hung" ELSE next

\* get_node(b, nullptr) called by the application.
GetNodeCall(b) ==
    /\ pc = "idle"
    /\ Room(<<b>>)
    /\ LET r == GetNode(Cur, b, nullptr)
       IN  /\ Install(r.st)
           /\ pc' = AfterGetNode(r.relock, "idle")
           /\ tree_lock' = r.relock
           /\ last' = [op |-> "get_node", node |-> r.node]
    /\ UNCHANGED <<locked, pruneVars, expVars, mctsVars>>
    /\ UNCHANGED thr

\* ExpandEnter with expanded set before the loop instead of inside it.
ExpandEnterFlagged(st, x) ==
    [st EXCEPT !.nodes[x].visits = @ + 1, !.nodes[x].expanded = TRUE]

\* expand() up to its loop: the visit is counted whether or not the node is
\* expanded already; the expanded flag is not touched here.
ExpandEnter(st, x) == [st EXCEPT !.nodes[x].visits = @ + 1]

\* expand() called by the application, with the node lock never taken.
ExpandCallNoLock(x) ==
    /\ pc = "idle"
    /\ x \in Live(Cur)
    /\ nodes[x].expanded \/ Room(ValidMoves(nodes[x].board))
    /\ VisitsBounded(ExpandEnter(Cur, x))
    /\ Install(ExpandEnter(Cur, x))
    /\ IF nodes[x].expanded
       THEN /\ pc' = "idle"
            /\ UNCHANGED <<locked, expVars>>
       ELSE /\ pc' = "expand"
            /\ locked' = locked
            /\ exp_node' = x
            /\ exp_i' = 1
            /\ exp_ret' = "idle"
    /\ last' = [op |-> "expand", node |-> x]
    /\ UNCHANGED <<tree_lock, pruneVars, mctsVars>>
    /\ UNCHANGED thr

\* expand() called by the application: lock, visits++, and the early return
\* when the node is expanded already.

ExpandCall(x) ==
    /\ pc = "idle"
    /\ x \in Live(Cur)
    /\ nodes[x].expanded \/ Room(ValidMoves(nodes[x].board))
    /\ VisitsBounded(ExpandEnter(Cur, x))
    /\ Install(ExpandEnter(Cur, x))
    /\ IF nodes[x].expanded
       THEN /\ pc' = "idle"
            /\ UNCHANGED <<locked, expVars>>
       ELSE /\ pc' = "expand"
            /\ locked' = locked \cup {x}
            /\ exp_node' = x
            /\ exp_i' = 1
            /\ exp_ret' = "idle"
    /\ last' = [op |-> "expand", node |-> x]
    /\ UNCHANGED <<tree_lock, pruneVars, mctsVars>>
    /\ UNCHANGED thr

\* One pass of expand()'s loop.
ExpandStep ==
    /\ pc = "expand"
    /\ exp_i <= Len(ValidMoves(nodes[exp_node].board))
    /\ LET r == ExpandMove(Cur, exp_node, exp_i)
       IN  /\ Install(r.st)
           /\ pc' = AfterGetNode(r.relock, "expand")
           /\ tree_lock' = r.relock
    /\ exp_i' = exp_i + 1
    /\ UNCHANGED <<locked, exp_node, exp_ret, pruneVars, mctsVars, last>>
    /\ UNCHANGED thr

\* The loop of expand() is over: unlock and return.
ExpandEnd ==
    /\ pc = "expand"
    /\ exp_i > Len(ValidMoves(nodes[exp_node].board))
    /\ pc' = exp_ret
    /\ locked' = locked \ {exp_node}
    /\ exp_node' = nullptr
    /\ exp_i' = 0
    /\ exp_ret' = "idle"
    /\ UNCHANGED <<nodes, transposition_table, roots, total_lookups,
                   total_hits, total_fillicides, tree_lock, pruneVars,
                   mctsVars, last>>
    /\ UNCHANGED thr

FilicideCall(x) ==
    /\ pc = "idle"
    /\ x \in Live(Cur)
    /\ Install(Filicide(Cur, x, {x}))
    /\ last' = [op |-> "filicide", node |-> x]
    /\ UNCHANGED <<pc, lockVars, pruneVars, expVars, mctsVars>>
    /\ UNCHANGED thr

PruneChildrenCall(x) ==
    /\ pc = "idle"
    /\ x \in Live(Cur)
    /\ Install(PruneChildren(Cur, x))
    /\ last' = [op |-> "prune_children", node |-> x]
    /\ UNCHANGED <<pc, lockVars, pruneVars, expVars, mctsVars>>
    /\ UNCHANGED thr

PruneAncestorsCall(x) ==
    /\ pc = "idle"
    /\ x \in Live(Cur)
    /\ Install(PruneAncestors(Cur, x))
    /\ last' = [op |-> "prune_ancestors", node |-> x]
    /\ UNCHANGED <<pc, lockVars, pruneVars, expVars, mctsVars>>
    /\ UNCHANGED thr

\* get_move() called by the application: a query, the tree is left as it is.
GetMoveCall(x) ==
    /\ pc = "idle"
    /\ x \in Live(Cur)
    /\ last' = [op |-> "get_move", node |-> x]
    /\ UNCHANGED <<nodes, transposition_table, roots, total_lookups,
                   total_hits, total_fillicides, pc, lockVars, pruneVars,
                   expVars, mctsVars, thr>>

\* mcts(board, num_iterations): the root is looked up or created.
MctsBegin(b, n) ==
    /\ pc = "idle"
    /\ Room(<<b>>)
    /\ LET r == GetNode(Cur, b, nullptr)
       IN  /\ Install(r.st)
           /\ pc' = AfterGetNode(r.relock, "mcts")
           /\ tree_lock' = r.relock
           /\ mcts_node' = r.node
           /\ last' = [op |-> "mcts", node |-> r.node]
    /\ mcts_left' = n
    /\ UNCHANGED <<locked, pruneVars, expVars>>
    /\ UNCHANGED thr

\* One iteration of mcts() up to the test of the leaf in expand(): select a
\* path, play out from the leaf (winner is what simulate() returned),
\* backpropagate, and enter expand() when the leaf is not terminal.
MctsIter(winner) ==
    /\ pc = "mcts"
    /\ mcts_left > 0
    /\ LET sel == Select(Cur, mcts_node)
           leaf == sel.path[Len(sel.path)]
           bp == Backpropagate(sel.st, winner, sel.path)
           expands == GameWinner(nodes[leaf].board) = "none"
       IN  IF sel.crash
           THEN /\ Install(sel.st)
                /\ pc' = "crashed"
                /\ UNCHANGED <<locked, expVars, mcts_left>>
           ELSE /\ winner \in Outcomes(nodes[leaf].board)
                /\ Room(ValidMoves(nodes[leaf].board))
                /\ mcts_left' = mcts_left - 1
                /\ VisitsBounded(IF expands THEN ExpandEnter(bp, leaf) ELSE bp)
                /\ IF expands
                   THEN /\ Install(ExpandEnter(bp, leaf))
                        /\ pc' = "expand"
                        /\ locked' = locked \cup {leaf}
                        /\ exp_node' = leaf
                        /\ exp_i' = 1
                        /\ exp_ret' = "mcts"
                   ELSE /\ Install(bp)
                        /\ UNCHANGED <<pc, locked, expVars>>
    /\ last' = [op |-> "mcts_iter", node |-> mcts_node]
    /\ UNCHANGED <<tree_lock, pruneVars, mcts_node>>
    /\ UNCHANGED thr

\* mcts() returns after the last iteration.
MctsEnd ==
    /\ pc = "mcts"
    /\ mcts_left = 0
    /\ pc' = "idle"
    /\ mcts_node' = nullptr
    /\ Install(Sweep(Cur, {}))
    /\ UNCHANGED <<lockVars, pruneVars, expVars, mcts_left, last>>
    /\ UNCHANGED thr

\* prune(max_size): the tree lock is taken and the roots are queued.
PruneBegin(ms) ==
    /\ pc = "idle"
    /\ pc' = "prune"
    /\ tree_lock' = TRUE
    /\ inspection_queue' = roots
    /\ max_size' = ms
    /\ last' = [op |-> "prune", node |-> nullptr]
    /\ UNCHANGED <<nodes, transposition_table, roots, total_lookups,
                   total_hits, total_fillicides, locked, expVars, mctsVars>>
    /\ UNCHANGED thr

RECURSIVE PruneNode(_, _, _, _)
\* The second loop of prune()'s body on the dequeued node: a child whose
\* visits do not exceed max_visits is filicided.
PruneNode(st, node, max_visits, i) ==
    IF i > Len(st.nodes[node].children) THEN st
    ELSE LET c == st.nodes[node].children[i]
             s1 == IF st.nodes[c].visits <= max_visits
                   THEN Filicide(st, c, {node, c})
                   ELSE st
         IN  PruneNode(s1, node, max_visits, i + 1)

\* The first loop of prune()'s body: max_visits ends as the visits of the
\* dequeued node itself when it has a child, and as 0 when it has none.
PruneMaxVisits(st, node) ==
    IF st.nodes[node].children = <<>> THEN 0 ELSE st.nodes[node].visits

\* One pass of prune()'s while loop with a node in the queue.
PruneStep ==
    /\ pc = "prune"
    /\ TranspositionSize(Cur) > max_size
    /\ inspection_queue # <<>>
    /\ LET node == Head(inspection_queue)
       IN  Install(Sweep(PruneNode(Cur, node, PruneMaxVisits(Cur, node), 1),
                         Range(Tail(inspection_queue))))
    /\ inspection_queue' = Tail(inspection_queue)
    /\ UNCHANGED <<pc, lockVars, max_size, expVars, mctsVars, last>>
    /\ UNCHANGED thr

\* One pass of the while loop with the queue empty: front() and pop() of an
\* empty std::queue are undefined behaviour.  The builds either fault on the
\* garbage element or keep looping on garbage; prune() returns in neither.
PruneEmptyFront ==
    /\ pc = "prune"
    /\ TranspositionSize(Cur) > max_size
    /\ inspection_queue = <<>>
    /\ pc' \in {"crashed", "hung"}
    /\ UNCHANGED <<nodes, transposition_table, roots, total_lookups,
                   total_hits, total_fillicides, lockVars, pruneVars, expVars,
                   mctsVars, last>>
    /\ UNCHANGED thr

\* The while loop ends: the tree lock is released and prune() returns.
PruneEnd ==
    /\ pc = "prune"
    /\ TranspositionSize(Cur) <= max_size
    /\ pc' = "idle"
    /\ tree_lock' = FALSE
    /\ inspection_queue' = <<>>
    /\ max_size' = 0
    /\ UNCHANGED <<nodes, transposition_table, roots, total_lookups,
                   total_hits, total_fillicides, locked, expVars, mctsVars,
                   last>>
    /\ UNCHANGED thr

Next ==
    \/ \E b \in RootBoards : GetNodeCall(b)
    \/ \E x \in Ids(Cur) : ExpandCall(x)
    \/ ExpandStep
    \/ ExpandEnd
    \/ \E x \in Ids(Cur) : FilicideCall(x)
    \/ \E x \in Ids(Cur) : PruneChildrenCall(x)
    \/ \E x \in Ids(Cur) : PruneAncestorsCall(x)
    \/ \E x \in Ids(Cur) : GetMoveCall(x)
    \/ \E b \in RootBoards, n \in {0, MaxIter} : MctsBegin(b, n)
    \/ \E w \in {"p1", "p2", "tie"} : MctsIter(w)
    \/ MctsEnd
    \/ \E ms \in {0, MaxSize} : PruneBegin(ms)
    \/ PruneStep
    \/ PruneEmptyFront
    \/ PruneEnd

Spec == Init /\ [][Next]_vars

\* ------------------------------------------------------- concurrent threads
\* Two application threads call into one MCTSTree.  Every step below is one
\* lock acquisition (enabled when the mutex is free), one critical section,
\* or one access made without a lock.
heapVars == <<nodes, transposition_table, roots, total_lookups, total_hits,
              total_fillicides>>
seqVars == <<pc, pruneVars, expVars, mctsVars, last>>

\* The shared_ptr handles a thread's frame holds.
Handles(r) ==
    ({r.res, r.root, r.cur, r.best, r.node, r.gp}
         \cup Range(r.path) \cup Range(r.queue)) \ {nullptr}

Pinned(th) == UNION {Handles(th[u]) : u \in Threads}

\* The last shared_ptr to the nodes of z is gone: weak_ptr::expired() is true
\* for them from now on, their destructors have not run yet.
Expire(st, z) ==
    [st EXCEPT !.nodes = [x \in DOMAIN st.nodes |->
                             IF x \in z THEN [st.nodes[x] EXCEPT !.alive = FALSE]
                             ELSE st.nodes[x]]]

\* A fault ends the process: no thread runs on.
At(t, p) == thr[t].pc = p /\ \A u \in Threads : thr[u].pc # "crashed"

\* The frame of t with the record of unprotected accesses reset.
Fr(t) == [thr[t] EXCEPT !.acc = {}]

\* Thread t takes a step to frame r, leaving the tree as st.
Step(t, st, r) ==
    /\ Install(st)
    /\ thr' = [thr EXCEPT ![t] = r]
    /\ locked' = (locked \ thr[t].holds) \cup r.holds
    /\ tree_lock' = IF thr[t].htree THEN r.htree ELSE (tree_lock \/ r.htree)
    /\ UNCHANGED seqVars

\* A step of t that drops shared_ptr handles: the nodes left without an owner
\* expire, and t runs their destructors next.
Drop(t, st, r) ==
    LET z == {x \in Live(st) :
                 ~Owned(st, Pinned([thr EXCEPT ![t] = r]), x)}
    IN  IF z = {} THEN Step(t, st, r)
        ELSE Step(t, Expire(st, z),
                  [r EXCEPT !.pc = "dtor", !.dying = z, !.dret = r.pc])

\* MCTSNode::~MCTSNode of the expired nodes and, through their child lists,
\* of every node they were the last owner of.  erase(find(board)) on a board
\* another thread took out of the table is erase(end()): undefined.
Destructor(t) ==
    /\ At(t, "dtor")
    /\ LET T == thr[t]
           missing == \E x \in T.dying : ~TableHas(Cur, nodes[x].board)
       IN  \/ Step(t, Sweep(Destroy(Cur, T.dying), Pinned(thr)),
                   [Fr(t) EXCEPT !.pc = T.dret, !.dying = {}, !.dret = "idle",
                                 !.acc = IF T.htree THEN {}
                                         ELSE {"destructor:table"}])
           \/ /\ missing
              /\ Step(t, Cur, [Fr(t) EXCEPT !.pc = "crashed",
                                            !.at = "destructor"])

\* ---- get_node
GetNodeOp(t, b) ==
    /\ At(t, "idle") /\ thr[t].ops > 0
    /\ Step(t, Cur, [Fr(t) EXCEPT !.pc = "gn_wait", !.ops = @ - 1, !.gb = b,
                                  !.gp = nullptr, !.gret = "idle"])

\* tree_lock.lock()
GetNodeLock(t) ==
    /\ At(t, "gn_wait") /\ ~tree_lock
    /\ Step(t, Cur, [Fr(t) EXCEPT !.pc = "gn_body", !.htree = TRUE])

\* get_node under tree_lock.  The stale-entry branch erases the entry and
\* calls get_node again, which locks the std::mutex the thread holds:
\* undefined, the builds hang or fault.  Else the node is reused or created,
\* tree_lock is released, and total_hits++ follows the unlock.
GetNodeBody(t) ==
    /\ At(t, "gn_body")
    /\ LET T == thr[t]
           r == GetNode(Cur, T.gb, T.gp)
           hit == TableHas(Cur, T.gb)
       IN  IF Stale(Cur, T.gb)
           THEN \E out \in {"hung", "crashed"} :
                    Step(t, EraseStale(Cur, T.gb),
                         [Fr(t) EXCEPT !.pc = out, !.at = "get_node"])
           ELSE Step(t, r.st,
                     [Fr(t) EXCEPT
                         !.pc = T.gret, !.htree = FALSE,
                         !.res = IF T.gret = "idle" THEN nullptr ELSE r.node,
                         !.gp = nullptr, !.gret = "idle",
                         !.acc = IF hit
                                 THEN {"get_node:parents", "get_node:total_hits"}
                                 ELSE {}])

\* ---- expand
ExpandOp(t, x) ==
    /\ At(t, "idle") /\ thr[t].ops > 0
    /\ x \in Live(Cur)
    /\ Step(t, Cur, [Fr(t) EXCEPT !.pc = "e_wait", !.ops = @ - 1, !.node = x,
                                  !.eret = "idle"])

\* expand(): lock.lock(), visits++, and the early return of an expanded node.
ExpandLock(t) ==
    /\ At(t, "e_wait")
    /\ LET T == thr[t]
           x == T.node
       IN  /\ x \notin locked
           /\ IF nodes[x].expanded
              THEN Drop(t, ExpandEnter(Cur, x),
                        [Fr(t) EXCEPT !.pc = T.eret, !.node = nullptr,
                                      !.eret = "idle"])
              ELSE Step(t, ExpandEnter(Cur, x),
                        [Fr(t) EXCEPT !.pc = "e_loop", !.holds = @ \cup {x},
                                      !.i = 1])

\* The head of expand()'s loop: expanded = true and the call of get_node for
\* the next move, or lock.unlock() and return after the last one.
ExpandLoop(t) ==
    /\ At(t, "e_loop")
    /\ LET T == thr[t]
           x == T.node
       IN  IF T.i > Len(ValidMoves(nodes[x].board))
           THEN Drop(t, Cur, [Fr(t) EXCEPT !.pc = T.eret, !.holds = @ \ {x},
                                           !.node = nullptr, !.i = 0,
                                           !.eret = "idle"])
           ELSE Step(t, [Cur EXCEPT !.nodes[x].expanded = TRUE],
                     [Fr(t) EXCEPT !.pc = "gn_wait",
                                   !.gb = Move(nodes[x].board, T.i),
                                   !.gp = x, !.gret = "e_push"])

\* children.push_back(new_node)
ExpandPush(t) ==
    /\ At(t, "e_push")
    /\ LET T == thr[t]
       IN  Step(t, [Cur EXCEPT !.nodes[T.node].children = Append(@, T.res)],
                [Fr(t) EXCEPT !.pc = "e_loop", !.res = nullptr, !.i = @ + 1])

\* ---- filicide
FilicideOp(t, x) ==
    /\ At(t, "idle") /\ thr[t].ops > 0
    /\ x \in Live(Cur)
    /\ Step(t, Cur, [Fr(t) EXCEPT !.pc = "f_wait", !.ops = @ - 1, !.node = x])

\* filicide(): lock.lock() and children.clear(); the destructors of the
\* released nodes run before lock.unlock().
FilicideLock(t) ==
    /\ At(t, "f_wait")
    /\ LET x == thr[t].node
       IN  /\ x \notin locked
           /\ IF ~nodes[x].expanded
              THEN Drop(t, Cur, [Fr(t) EXCEPT !.pc = "idle", !.node = nullptr])
              ELSE Drop(t, [Cur EXCEPT !.nodes[x].children = <<>>,
                                       !.nodes[x].expanded = FALSE],
                        [Fr(t) EXCEPT !.pc = "f_unlock", !.holds = @ \cup {x}])

\* filicide(): lock.unlock() and return.
FilicideUnlock(t) ==
    /\ At(t, "f_unlock")
    /\ Drop(t, Cur, [Fr(t) EXCEPT !.pc = "idle",
                                  !.holds = @ \ {thr[t].node},
                                  !.node = nullptr])

\* ---- mcts
MctsOp(t, b, n) ==
    /\ At(t, "idle") /\ thr[t].ops > 0
    /\ Step(t, Cur, [Fr(t) EXCEPT !.pc = "gn_wait", !.ops = @ - 1, !.gb = b,
                                  !.gp = nullptr, !.gret = "m_root",
                                  !.left = n])

\* mcts(): node = get_node(board, nullptr)
MctsRoot(t) ==
    /\ At(t, "m_root")
    /\ Step(t, Cur, [Fr(t) EXCEPT !.pc = "m_iter", !.root = thr[t].res,
                                  !.res = nullptr])

\* The head of mcts()'s loop: the next select(), or the return.
MctsLoop(t) ==
    /\ At(t, "m_iter")
    /\ LET T == thr[t]
       IN  IF T.left = 0
           THEN Drop(t, Cur, [Fr(t) EXCEPT !.pc = "idle", !.root = nullptr])
           ELSE Step(t, Cur, [Fr(t) EXCEPT !.pc = "s_test", !.cur = T.root,
                                           !.path = <<>>])

\* select(): the loop test cur_node->expanded, read without the lock, and
\* path.push_back(cur_node).  cur_node is nullptr when max_PUCT() found no
\* child.
SelectTest(t) ==
    /\ At(t, "s_test")
    /\ LET T == thr[t]
       IN  IF T.cur = nullptr
           THEN Step(t, Cur, [Fr(t) EXCEPT !.pc = "crashed", !.at = "select"])
           ELSE Step(t, Cur,
                     [Fr(t) EXCEPT
                         !.pc = IF nodes[T.cur].expanded THEN "mp_wait"
                                ELSE "leaf_read",
                         !.path = Append(@, T.cur),
                         !.acc = {"select:expanded"}])

\* max_PUCT(): lock.lock()
MaxPUCTLock(t) ==
    /\ At(t, "mp_wait")
    /\ thr[t].cur \notin locked
    /\ Step(t, Cur, [Fr(t) EXCEPT !.pc = "mp_child",
                                  !.holds = @ \cup {thr[t].cur}, !.i = 1,
                                  !.best = nullptr, !.bestT = NoScore])

\* max_PUCT(): the next child's Q() takes the child's lock while the node's
\* own lock is held; after the last child, lock.unlock().
MaxPUCTChild(t) ==
    /\ At(t, "mp_child")
    /\ LET T == thr[t]
           ch == nodes[T.cur].children
       IN  IF T.i > Len(ch)
           THEN Step(t, Cur, [Fr(t) EXCEPT !.pc = "s_inc",
                                           !.holds = @ \ {T.cur}, !.i = 0])
           ELSE /\ ch[T.i] \notin locked
                /\ Step(t, Cur, [Fr(t) EXCEPT !.pc = "mp_score",
                                              !.holds = @ \cup {ch[T.i]}])

\* max_PUCT(): Q() reads under the child's lock and releases it; U() reads
\* and cleans the child's parent list and reads the parents' visits with no
\* lock of theirs; the child becomes the best on a strictly greater score.
MaxPUCTScore(t) ==
    /\ At(t, "mp_score")
    /\ LET T == thr[t]
           c == nodes[T.cur].children[T.i]
           terms == PUCTTerms(Cur, c)
           better == T.best = nullptr \/ ScoreGreater(terms, T.bestT)
       IN  Step(t, UClean(Cur, c),
                [Fr(t) EXCEPT !.pc = "mp_child", !.holds = @ \ {c},
                              !.i = @ + 1,
                              !.best = IF better THEN c ELSE @,
                              !.bestT = IF better THEN terms ELSE @,
                              !.acc = {"U:parents", "U:visits"}])

\* select(): cur_node->visits++ under cur_node's lock; cur_node = new_node.
SelectVisit(t) ==
    /\ At(t, "s_inc")
    /\ LET T == thr[t]
       IN  /\ T.cur \notin locked
           /\ Step(t, [Cur EXCEPT !.nodes[T.cur].visits = @ + 1],
                   [Fr(t) EXCEPT !.pc = "s_test", !.cur = T.best,
                                 !.best = nullptr, !.bestT = NoScore])

\* select(): the visits++ of the leaf is a read and a write with no lock.
LeafRead(t) ==
    /\ At(t, "leaf_read")
    /\ Step(t, Cur, [Fr(t) EXCEPT !.pc = "leaf_write",
                                  !.tmp = nodes[thr[t].cur].visits,
                                  !.acc = {"select:visits"}])

LeafWrite(t) ==
    /\ At(t, "leaf_write")
    /\ LET T == thr[t]
       IN  Step(t, [Cur EXCEPT !.nodes[T.cur].visits = T.tmp + 1],
                [Fr(t) EXCEPT !.pc = "sim", !.tmp = 0,
                              !.acc = {"select:visits"}])

\* simulate(leaf->board) ends with winner w.
Simulate(t, w) ==
    /\ At(t, "sim")
    /\ w \in Outcomes(nodes[thr[t].cur].board)
    /\ Step(t, Cur, [Fr(t) EXCEPT !.pc = "bp", !.winner = w, !.i = 1])

\* One pass of backpropagate()'s loop, under the lock of the path's node.
BackpropagateStep(t) ==
    /\ At(t, "bp")
    /\ LET T == thr[t]
       IN  IF T.i > Len(T.path)
           THEN Step(t, Cur, [Fr(t) EXCEPT !.pc = "m_exp", !.i = 0])
           ELSE /\ T.path[T.i] \notin locked
                /\ Step(t, Backpropagate(Cur, T.winner, <<T.path[T.i]>>),
                        [Fr(t) EXCEPT !.i = @ + 1])

\* mcts(): leaf->expand() unless the leaf's board is decided.
MctsExpand(t) ==
    /\ At(t, "m_exp")
    /\ LET T == thr[t]
       IN  IF GameWinner(nodes[T.cur].board) = "none"
           THEN Step(t, Cur, [Fr(t) EXCEPT !.pc = "e_wait", !.node = T.cur,
                                           !.eret = "m_next"])
           ELSE Step(t, Cur, [Fr(t) EXCEPT !.pc = "m_next"])

\* The end of the loop body of mcts(): path and leaf go out of scope.
MctsNext(t) ==
    /\ At(t, "m_next")
    /\ Drop(t, Cur, [Fr(t) EXCEPT !.pc = "m_iter", !.left = @ - 1,
                                  !.path = <<>>, !.cur = nullptr,
                                  !.winner = "none"])

\* ---- prune
PruneOp(t, ms) ==
    /\ At(t, "idle") /\ thr[t].ops > 0
    /\ Step(t, Cur, [Fr(t) EXCEPT !.pc = "p_wait", !.ops = @ - 1, !.ms = ms])

\* prune(): tree_lock.lock() and the roots are queued.
PruneLock(t) ==
    /\ At(t, "p_wait") /\ ~tree_lock
    /\ Step(t, Cur, [Fr(t) EXCEPT !.pc = "p_loop", !.htree = TRUE,
                                  !.queue = roots])

\* The head of prune()'s while loop: return, front() of an empty queue, or
\* the next node with its max_visits (read with no node lock).
PruneLoop(t) ==
    /\ At(t, "p_loop")
    /\ LET T == thr[t]
       IN  IF TranspositionSize(Cur) <= T.ms
           THEN Step(t, Cur, [Fr(t) EXCEPT !.pc = "idle", !.htree = FALSE,
                                           !.queue = <<>>, !.ms = 0])
           ELSE IF T.queue = <<>>
           THEN \E out \in {"crashed", "hung"} :
                    Step(t, Cur, [Fr(t) EXCEPT !.pc = out, !.at = "prune"])
           ELSE Step(t, Cur,
                     [Fr(t) EXCEPT
                         !.pc = "p_child", !.node = Head(T.queue),
                         !.queue = Tail(T.queue),
                         !.mv = PruneMaxVisits(Cur, Head(T.queue)), !.i = 1,
                         !.acc = {"prune:children", "prune:visits"}])

\* prune(): the next child of the dequeued node; child->filicide() takes the
\* child's lock while tree_lock is held.
PruneChild(t) ==
    /\ At(t, "p_child")
    /\ LET T == thr[t]
           ch == nodes[T.node].children
       IN  IF T.i > Len(ch)
           THEN Step(t, Cur, [Fr(t) EXCEPT !.pc = "p_loop", !.node = nullptr,
                                           !.i = 0, !.mv = 0])
           ELSE IF nodes[ch[T.i]].visits <= T.mv
           THEN /\ ch[T.i] \notin locked
                /\ Step(t, Filicide(Cur, ch[T.i], Pinned(thr) \cup {ch[T.i]}),
                        [Fr(t) EXCEPT !.i = @ + 1,
                                      !.acc = {"prune:children", "prune:visits"}])
           ELSE Step(t, Cur, [Fr(t) EXCEPT !.i = @ + 1,
                                           !.acc = {"prune:children",
                                                    "prune:visits"}])

NextMT ==
    \E t \in Threads :
        \/ \E b \in RootBoards : GetNodeOp(t, b)
        \/ GetNodeLock(t)
        \/ GetNodeBody(t)
        \/ \E x \in Ids(Cur) : ExpandOp(t, x)
        \/ ExpandLock(t)
        \/ ExpandLoop(t)
        \/ ExpandPush(t)
        \/ \E x \in Ids(Cur) : FilicideOp(t, x)
        \/ FilicideLock(t)
        \/ FilicideUnlock(t)
        \/ Destructor(t)
        \/ \E b \in RootBoards, n \in {0, MaxIter} : MctsOp(t, b, n)
        \/ MctsRoot(t)
        \/ MctsLoop(t)
        \/ SelectTest(t)
        \/ MaxPUCTLock(t)
        \/ MaxPUCTChild(t)
        \/ MaxPUCTScore(t)
        \/ SelectVisit(t)
        \/ LeafRead(t)
        \/ LeafWrite(t)
        \/ \E w \in {"p1", "p2", "tie"} : Simulate(t, w)
        \/ BackpropagateStep(t)
        \/ MctsExpand(t)
        \/ MctsNext(t)
        \/ \E ms \in {0, MaxSize} : PruneOp(t, ms)
        \/ PruneLock(t)
        \/ PruneLoop(t)
        \/ PruneChild(t)

SpecMT == InitMT /\ [][NextMT]_vars

\* ------------------------------------------------------------------ claims
Count(s, x) == Cardinality({i \in DOMAIN s : s[i] = x})

\* C1: whenever two child slots (of the same or of two different parents)
\* stand for the same logical state, the same node occupies both slots, that
\* node is the only live node for the state and the one the table holds for
\* it, and its parent list records both parents.
C1_SharedNode ==
    \A p, q \in Live(Cur) :
        \A i \in DOMAIN nodes[p].children, j \in DOMAIN nodes[q].children :
            LET s == Move(nodes[p].board, i)
                c == nodes[p].children[i]
            IN  Move(nodes[q].board, j) = s =>
                    /\ nodes[q].children[j] = c
                    /\ nodes[c].alive /\ nodes[c].board = s
                    /\ TableHas(Cur, s) /\ transposition_table[s] = c
                    /\ \A y \in Live(Cur) : nodes[y].board = s => y = c
                    /\ p \in Range(nodes[c].parents)
                    /\ q \in Range(nodes[c].parents)

\* C1 witness: two different parents were expanded and share a child node.
C1_Witness ==
    /\ pc = "idle"
    /\ \E p, q \in Live(Cur) :
          /\ p # q
          /\ \E i \in DOMAIN nodes[p].children,
                j \in DOMAIN nodes[q].children :
                nodes[p].children[i] = nodes[q].children[j]

\* C2: every get_node(s, nullptr) call counts one lookup and returns the node
\* the table then holds for s, which is in the root list at most once; a call
\* that finds s in the table returns the node already there, counts exactly
\* one hit and leaves the root list alone; a call that does not find s
\* returns a new node, counts no hit and puts the node in the root list once.
C2_GetNodeTwice ==
    [][\A b \in RootBoards :
          last'.op = "get_node" /\ GetNodeCall(b) =>
              /\ total_lookups' = total_lookups + 1
              /\ TableHas(Nxt, b) /\ transposition_table'[b] = last'.node
              /\ Count(roots', last'.node) <= 1
              /\ IF TableHas(Cur, b)
                 THEN /\ last'.node = transposition_table[b]
                      /\ total_hits' = total_hits + 1
                      /\ roots' = roots
                 ELSE /\ last'.node \notin Ids(Cur)
                      /\ total_hits' = total_hits
                      /\ Count(roots', last'.node) = 1]_vars

\* C2 witness: get_node was called twice with the same state and no parent,
\* and nothing else: one node, two lookups, one hit, one root.
C2_Witness ==
    /\ last.op = "get_node"
    /\ total_lookups = 2 /\ total_hits = 1
    /\ Len(nodes) = 1 /\ roots = <<1>>

StatsInRange(x) ==
    /\ 0 <= nodes[x].wins + nodes[x].ties
    /\ nodes[x].wins + nodes[x].ties <= nodes[x].visits

ChildShape(x) ==
    LET ch == nodes[x].children
        mv == ValidMoves(nodes[x].board)
    IN  /\ \/ ch = <<>>
           \/ /\ Len(ch) = Len(mv)
              /\ \A i \in DOMAIN ch :
                    nodes[ch[i]].alive /\ nodes[ch[i]].board = mv[i]
        /\ nodes[x].expanded <=> ch # <<>>

Terminal(x) == ValidMoves(nodes[x].board) = <<>>

ExpandReturned(x) ==
    /\ last = [op |-> "expand", node |-> x]
    /\ pc = "idle"
    /\ x \in Live(Cur)

\* C5 as stated: after expand() on a terminal node the node has
\* expanded = true and no children.
C5_Original ==
    \A x \in Ids(Cur) :
        ExpandReturned(x) /\ Terminal(x) =>
            nodes[x].expanded /\ nodes[x].children = <<>>

\* C5 as amended: after expand() on a terminal node the node has
\* expanded = false and no children, and no step of an expand() call on a
\* terminal node, the first or a repeated one, changes its expanded flag or
\* its child list.
C5_TerminalExpand ==
    /\ [](\A x \in Ids(Cur) :
             ExpandReturned(x) /\ Terminal(x) =>
                 ~nodes[x].expanded /\ nodes[x].children = <<>>)
    /\ [][\A x \in Live(Cur) :
             /\ Terminal(x)
             /\ \/ ExpandCall(x)
                \/ exp_node = x /\ (ExpandStep \/ ExpandEnd)
             => /\ nodes'[x].expanded = nodes[x].expanded
                /\ nodes'[x].children = nodes[x].children]_vars

\* C5 witness: expand() has returned at least twice on a terminal node (its
\* visits were all counted by expand(): no playout result is recorded).
C5_Witness ==
    \E x \in Ids(Cur) :
        /\ ExpandReturned(x) /\ Terminal(x)
        /\ nodes[x].visits >= 2
        /\ nodes[x].wins + nodes[x].ties = 0

RECURSIVE ReachFrom(_, _)
\* The nodes reached from the nodes of S through child edges, S included.
ReachFrom(st, S) ==
    LET T == S \cup UNION {Range(st.nodes[p].children) : p \in S}
    IN  IF T = S THEN S ELSE ReachFrom(st, T)

HasEntry(st, y) ==
    TableHas(st, st.nodes[y].board) /\ st.table[st.nodes[y].board] = y

RECURSIVE LinearChain(_, _)
\* x and each of its ancestors has at most one live parent entry, and that
\* parent holds it as a child: the graph above x is a chain, as root->A->B.
LinearChain(st, x) ==
    LET ps == LiveParents(st, x)
    IN  \/ ps = <<>>
        \/ /\ Len(ps) = 1
           /\ x \in Range(st.nodes[ps[1]].children)
           /\ LinearChain(st, ps[1])

RECURSIVE ChainPairs(_, _)
\* The pairs <<ancestor, its child on the path to x>> of a linear chain.
ChainPairs(st, x) ==
    LET ps == LiveParents(st, x)
    IN  IF ps = <<>> THEN {}
        ELSE {<<ps[1], x>>} \cup ChainPairs(st, ps[1])

\* C7 as stated: after B.prune_ancestors() every ancestor of B has exactly
\* one child left.
C7_Original ==
    \A b \in Ids(Cur) :
        /\ last = [op |-> "prune_ancestors", node |-> b]
        /\ nodes[b].alive
        => \A p \in Live(Cur) :
               b \in ReachFrom(Cur, Range(nodes[p].children)) =>
                   Len(nodes[p].children) = 1

\* C7 as amended: B.prune_ancestors() on a chain root->A->B removes no child
\* slot: every ancestor keeps its whole child list and stays expanded, B
\* keeps its own children, and every child of an ancestor other than the one
\* on the path to B stays a live node with its table entry but is left
\* unexpanded with an empty child list (its subtree is released).
C7_PruneAncestors ==
    [][\A b \in Ids(Cur) :
          /\ last' = [op |-> "prune_ancestors", node |-> b]
          /\ PruneAncestorsCall(b) /\ LinearChain(Cur, b)
          =>
              /\ nodes'[b].alive
              /\ nodes'[b].children = nodes[b].children
              /\ nodes'[b].expanded = nodes[b].expanded
              /\ \A pk \in ChainPairs(Cur, b) :
                    /\ nodes'[pk[1]].alive /\ nodes'[pk[1]].expanded
                    /\ nodes'[pk[1]].children = nodes[pk[1]].children
                    /\ \A c \in Range(nodes[pk[1]].children) \ {pk[2]} :
                          /\ nodes'[c].alive /\ HasEntry(Nxt, c)
                          /\ ~nodes'[c].expanded
                          /\ nodes'[c].children = <<>>]_vars

\* C7 witness: prune_ancestors() has returned on B in a chain root->A->B
\* where root and A have two children each, and the sibling A2 under root
\* had been expanded: a live node still lists A2 as a parent.
C7_Witness ==
    \E b, a, r, a2 \in Live(Cur) :
        /\ last = [op |-> "prune_ancestors", node |-> b]
        /\ LiveParents(Cur, b) = <<a>> /\ LiveParents(Cur, a) = <<r>>
        /\ LiveParents(Cur, r) = <<>>
        /\ b \in Range(nodes[a].children) /\ Len(nodes[a].children) = 2
        /\ a \in Range(nodes[r].children) /\ Len(nodes[r].children) = 2
        /\ a2 \in Range(nodes[r].children) /\ a2 # a
        /\ nodes[a2].children = <<>>
        /\ \E y \in Live(Cur) : a2 \in Range(nodes[y].parents)

\* C8: prune() never takes a node from an empty frontier, never ends in a
\* fault or an endless loop, and the tree lock is free whenever no prune()
\* call is running.
C8_PruneTerminates ==
    /\ ~(/\ pc = "prune"
         /\ TranspositionSize(Cur) > max_size
         /\ inspection_queue = <<>>)
    /\ pc \notin {"crashed", "hung"}
    /\ pc = "idle" => ~tree_lock

\* C9: between calls, a live node is in the root list exactly when no live
\* node is listed among its parents, and it is there at most once.
C9_RootSet ==
    pc = "idle" =>
        \A x \in Live(Cur) :
            /\ Count(roots, x) <= 1
            /\ x \in Range(roots) <=>
                   ~\E p \in Live(Cur) : p \in Range(nodes[x].parents)

\* C10: the table has as many entries as there are nodes reachable from the
\* root list through child edges; each of these nodes is live and is the
\* entry under its own board; every entry refers to a live node of the
\* entry's board.
C10_TableSize ==
    LET R == ReachFrom(Cur, Range(roots))
    IN  /\ TranspositionSize(Cur) = Cardinality(R)
        /\ \A y \in R : nodes[y].alive /\ HasEntry(Cur, y)
        /\ \A b \in DOMAIN transposition_table :
              /\ transposition_table[b] \in Ids(Cur)
              /\ nodes[transposition_table[b]].alive
              /\ nodes[transposition_table[b]].board = b

\* C10 witness: a pruning call has reclaimed nodes and a graph of at least
\* three nodes with an expanded node is left.
C10_Witness ==
    /\ pc = "idle"
    /\ last.op \in {"filicide", "prune", "prune_ancestors", "prune_children"}
    /\ total_fillicides > 0
    /\ TranspositionSize(Cur) >= 3
    /\ \E p \in Live(Cur) : nodes[p].expanded

\* Move m is what the claim lets get_move() return on node x: the sentinel
\* when x is not expanded, else a move whose child has the least Q() of all
\* children and the most visits among the children of that Q().
GetMoveOK(st, x, m) ==
    IF ~st.nodes[x].expanded THEN m = NoMove
    ELSE /\ m \in DOMAIN st.nodes[x].children
         /\ LET ch == st.nodes[x].children
            IN  \A j \in DOMAIN ch :
                    /\ ~QLess(QTerms(st, ch[j]), QTerms(st, ch[m]))
                    /\ QEqual(QTerms(st, ch[j]), QTerms(st, ch[m])) =>
                           st.nodes[ch[j]].visits <= st.nodes[ch[m]].visits

\* C14: get_move() on an expanded node returns the move of a child with the
\* minimum Q(), which among the children of that Q() has the highest visit
\* count; on a node that is not expanded it returns the sentinel.
C14_GetMove ==
    last.op = "get_move" => GetMoveOK(Cur, last.node, GetMove(Cur, last.node))

\* C14 witness: get_move() was called on an expanded node whose first child
\* has the minimum Q() and a later child has the same Q() and more visits:
\* the later child's move is returned.
C14_Witness ==
    /\ last.op = "get_move"
    /\ nodes[last.node].expanded
    /\ LET ch == nodes[last.node].children
       IN  /\ Len(ch) >= 2
           /\ QEqual(QTerms(Cur, ch[1]), QTerms(Cur, ch[2]))
           /\ nodes[ch[2]].visits > nodes[ch[1]].visits
           /\ GetMove(Cur, last.node) = 2

RECURSIVE BumpVisits(_, _, _)
\* st with one visit added to each of the first m nodes of path.
BumpVisits(st, path, m) ==
    IF m = 0 THEN st
    ELSE [BumpVisits(st, path, m - 1) EXCEPT !.nodes[path[m]].visits = @ + 1]

\* c is the child of p with the greatest (1 - Q()) + U() in st, the first of
\* them in the child list when several have it.
FirstMax(st, p, c) ==
    LET ch == st.nodes[p].children
    IN  \E i \in DOMAIN ch :
            /\ ch[i] = c
            /\ \A j \in DOMAIN ch :
                  /\ j < i => ScoreGreater(PUCTTerms(st, c),
                                           PUCTTerms(st, ch[j]))
                  /\ j > i => ~ScoreGreater(PUCTTerms(st, ch[j]),
                                            PUCTTerms(st, c))

\* r is what the claim lets select() on node x of st return and leave.
SelectOK(st, x, r) ==
    /\ ~r.crash
    /\ Len(r.path) >= 1 /\ r.path[1] = x
    /\ \A k \in 2..Len(r.path) :
          FirstMax(BumpVisits(st, r.path, k - 2), r.path[k - 1], r.path[k])
    /\ \A k \in DOMAIN r.path :
          st.nodes[r.path[k]].expanded <=> k < Len(r.path)
    /\ \A y \in Ids(st) :
          /\ Count(r.path, y) <= 1
          /\ r.st.nodes[y].visits = st.nodes[y].visits + Count(r.path, y)
          /\ r.st.nodes[y].wins = st.nodes[y].wins
          /\ r.st.nodes[y].ties = st.nodes[y].ties
          /\ r.st.nodes[y].children = st.nodes[y].children
    /\ r.st.table = st.table

\* C15: wherever select() can be called (between calls and between the
\* iterations of mcts()), select() on any live node n returns a path that
\* starts with n, continues each time with the max_PUCT() child of the node
\* before (the first of the maxima), and ends with its only unexpanded node;
\* it adds exactly one visit to every node of the path and changes no wins,
\* ties, child list or table entry.
C15_Select ==
    pc \in {"idle", "mcts"} =>
        \A n \in Live(Cur) : SelectOK(Cur, n, Select(Cur, n))

\* C15 witness: mcts() is about to call select() on an expanded root whose
\* second child has a strictly greater score than the first: the path goes
\* through the second child.
C15_Witness ==
    /\ pc = "mcts" /\ mcts_left > 0
    /\ nodes[mcts_node].expanded
    /\ LET r == Select(Cur, mcts_node)
       IN  /\ Len(r.path) >= 2
           /\ r.path[2] = nodes[mcts_node].children[2]
           /\ ScoreGreater(PUCTTerms(Cur, nodes[mcts_node].children[2]),
                           PUCTTerms(Cur, nodes[mcts_node].children[1]))

\* QU = Q() + U() of node c as the terms of (25 * a + 72 * sqrt(pv)) / (50 * n)
\* with a = 2 * wins + ties, the form ScoreGreater compares.
QUTerms(st, c) ==
    [n |-> 1 + st.nodes[c].visits,
     a |-> 2 * st.nodes[c].wins + st.nodes[c].ties,
     pv |-> ParentVisitCount(st, c)]

\* C18: prune_children() on an expanded node x discards a child (empties its
\* child list) exactly when another child of x has a strictly greater
\* QU = Q() + U(); every other child keeps its child list.
C18_PruneChildren ==
    [][\A x \in Ids(Cur) :
          /\ last' = [op |-> "prune_children", node |-> x]
          /\ PruneChildrenCall(x) /\ nodes[x].expanded
          =>
              LET ch == nodes[x].children
              IN  \A i \in DOMAIN ch :
                      IF \E j \in DOMAIN ch :
                             /\ j # i
                             /\ ScoreGreater(QUTerms(Cur, ch[j]),
                                             QUTerms(Cur, ch[i]))
                      THEN /\ nodes'[ch[i]].children = <<>>
                           /\ ~nodes'[ch[i]].expanded
                      ELSE /\ nodes'[ch[i]].children = nodes[ch[i]].children
                           /\ nodes'[ch[i]].expanded = nodes[ch[i]].expanded
      ]_vars

\* C19: after N.prune_ancestors() returns, N is a live node and is reached
\* through child edges from every root from which it was reached before the
\* call, also when N has two parents under one ancestor.
C19_KeepsNode ==
    [][\A n \in Ids(Cur) :
          /\ last' = [op |-> "prune_ancestors", node |-> n]
          /\ PruneAncestorsCall(n)
          =>
              /\ nodes'[n].alive
              /\ \A r \in Range(roots) :
                    n \in ReachFrom(Cur, {r}) =>
                        /\ r \in Range(roots')
                        /\ n \in ReachFrom(Nxt, {r})]_vars

\* C20: after expand() and filicide() calls in any order, a live node P is
\* listed in node X's parent list exactly once if X is in P's child list and
\* not at all otherwise.
C20_EdgesConsistent ==
    pc = "idle" /\ last.op \in {"expand", "filicide"} =>
        \A p, x \in Live(Cur) :
            Count(nodes[x].parents, p) =
                IF x \in Range(nodes[p].children) THEN 1 ELSE 0

\* ----------------------------------------------------- claims on the threads
\* The locks thread t holds.
LocksHeld(t) == Cardinality(thr[t].holds) + (IF thr[t].htree THEN 1 ELSE 0)

\* C11: no thread holds two locks at once: not tree_lock together with a
\* node lock, and not the locks of two nodes.
C11_OneLock == \A t \in Threads : LocksHeld(t) <= 1

\* The node whose lock the next step of t has to take, nullptr if none.
WantsNode(t) ==
    LET T == thr[t]
    IN  CASE T.pc \in {"e_wait", "f_wait"} -> T.node
          [] T.pc \in {"mp_wait", "s_inc"} -> T.cur
          [] T.pc = "mp_child" /\ T.i <= Len(nodes[T.cur].children)
                -> nodes[T.cur].children[T.i]
          [] T.pc = "bp" /\ T.i <= Len(T.path) -> T.path[T.i]
          [] /\ T.pc = "p_child" /\ T.i <= Len(nodes[T.node].children)
             /\ nodes[nodes[T.node].children[T.i]].visits <= T.mv
                -> nodes[T.node].children[T.i]
          [] OTHER -> nullptr

\* The next step of t has to take tree_lock.
WantsTree(t) == thr[t].pc \in {"gn_wait", "p_wait"}

\* t waits for a lock that u holds.
BlockedOn(t, u) ==
    \/ WantsTree(t) /\ thr[u].htree
    \/ WantsNode(t) \in thr[u].holds

\* t is inside expand() on a child of a root, called by the application.
ExpandsRootChild(t) ==
    /\ thr[t].pc \in {"e_wait", "e_loop", "gn_wait", "gn_body", "e_push"}
    /\ thr[t].node # nullptr
    /\ thr[t].root = nullptr
    /\ \E r \in Range(roots) : thr[t].node \in Range(nodes[r].children)

\* u is inside prune() with the table larger than max_size.
Prunes(u) ==
    /\ thr[u].pc \in {"p_wait", "p_loop", "p_child"}
    /\ TranspositionSize(Cur) > thr[u].ms

\* C12: while one thread runs expand() on a child of a root and another
\* runs prune() on a table larger than max_size, there is no state in which
\* each of the two waits for a lock the other holds.
C12_NoDeadlock ==
    \A t, u \in Threads :
        t # u /\ ExpandsRootChild(t) /\ Prunes(u) =>
            ~(BlockedOn(t, u) /\ BlockedOn(u, t))

\* C13: a get_node call that finds an entry whose node has expired completes:
\* it never ends in a hang or a fault, and so never leaves tree_lock held by
\* a thread that will not release it.
C13_StaleRetry ==
    \A t \in Threads :
        thr[t].at = "get_node" =>
            thr[t].pc \notin {"hung", "crashed"} /\ ~thr[t].htree

\* The accesses the threads make that the claim puts under a lock: a node's
\* visits, wins, ties, children and parents under the node's lock; the
\* table, the root list and the counters under tree_lock.
GuardedAccesses ==
    {"select:visits", "U:parents", "U:visits", "get_node:parents",
     "get_node:total_hits", "destructor:table", "prune:children",
     "prune:visits"}

\* C16: no step of a thread reads or writes a node's visits, wins, ties,
\* children or parents without holding that node's lock, or changes the
\* table, the root list or a counter without holding tree_lock.
C16_Locked == \A t \in Threads : thr[t].acc \cap GuardedAccesses = {}

\* C17: while two workers run mcts() iterations from one shared root, no
\* visit is lost: every live node keeps 0 <= wins + ties <= visits.
C17_NoLostVisit ==
    (\E t, u \in Threads :
        t # u /\ thr[t].root # nullptr /\ thr[t].root = thr[u].root)
    => \A x \in Live(Cur) : StatsInRange(x)
====
